---- MODULE Spec2Model ----
(***************************************************************************)
(* The trading dashboard of my-nextjs-frontend: the page component (React  *)
(* state, parseOutput, handleTrade, the 4-minute timer, the time window    *)
(* and the chart) and the /api/trade route (runTradingScript, the search   *)
(* for the first '{'). Time is counted in hours.                           *)
(*                                                                         *)
(* Text is modelled as a sequence of tokens, each standing for a concrete  *)
(* piece of text:                                                          *)
(*   "{"  the character '{'          "}"  the character '}'                *)
(*   " "  a whitespace character     "#"  a character that is none of      *)
(*                                        these and starts no JSON value   *)
(*   "m"  the member list of one JSON object ("key":value,...), non-empty, *)
(*        whose parsed content is the text's obj field                     *)
(*   "t"  a <thinking>...</thinking> block without braces                  *)
(* The member list of an object may itself contain braces (a history point *)
(* is an object), so the input sets hold only texts in which a member list *)
(* comes after some '{' token: on those, indexOf('{') on the characters    *)
(* and IndexOf on the tokens agree.                                        *)
(***************************************************************************)
EXTENDS Integers, Sequences, FiniteSets, TLC

VARIABLES
    variant,            \* "auto": page.tsx 134-184 (timer), "manual": page.tsx 529-586 (button)
    reasoning,          \* useState<string>('')
    decisions,          \* useState<Decision[]>([])
    portfolioSummary,   \* useState<PortfolioSummary | null>(null)
    portfolioPositions, \* useState<Position[]>([])
    history,            \* useState<HistoryPoint[]>([])
    tradeHistory,       \* useState<any[]>([])
    loading,            \* useState<boolean>
    error,              \* useState<string | null>(null)
    timer,              \* TRUE once setInterval(handleTrade, ...) is installed
    started,            \* number of handleTrade calls so far
    inflight,           \* the handleTrade calls awaiting their fetch
    lastCycle,          \* what the last settled handleTrade call saw (history variable)
    raw,                \* the engine stdout under test (fixed by the extraction and window specifications; the stdout of the last call on the tagged-block pages)
    timeRange,          \* useState<'all' | '72h'>('all')
    filteredHistory,    \* useMemo(..., [history, timeRange]): the window on display
    now,                \* Date.now(), in hours
    unmounted,          \* TRUE once the effect cleanup has run: the page is gone
    summary,            \* useState<string>('') of the tagged-block pages (part_001, part_002)
    portfolio,          \* useState<Portfolio | null>(null) of the tagged-block pages
    lastRun             \* which call settled last and how its engine process ended (history variable)

vars == <<variant, reasoning, decisions, portfolioSummary, portfolioPositions,
          history, tradeHistory, loading, error, timer, started, inflight,
          lastCycle, raw, timeRange, filteredHistory, now, unmounted,
          summary, portfolio, lastRun>>

----------------------------------------------------------------------------
(* Bounds *)

MaxCycles == 2
MaxHist == 2
MaxRawLen == 4
MaxSeries == 3
MaxClock == 3
MaxTaggedLen == 2

\* 72 * 60 * 60 * 1000 ms, in hours.
WindowHours == 72

----------------------------------------------------------------------------
(* JavaScript values *)

Str(s) == [t |-> "string", v |-> s]
Arr(a) == [t |-> "array", v |-> a]
Obj(o) == [t |-> "object", v |-> o]
JNull == [t |-> "null", v |-> <<>>]
Undefined == [t |-> "undefined", v |-> <<>>]

\* The falsy values among the ones modelled: null, undefined and ''.
Falsy(x) == x.t \in {"null", "undefined"} \/ x = Str(<<>>)

\* a ?? b, which a value that is falsy but neither null nor undefined passes.
OrElseNullish(a, b) == IF a.t \in {"null", "undefined"} THEN b ELSE a

\* a || b
OrElse(a, b) == IF Falsy(a) THEN b ELSE a

\* data.key of a parsed object: undefined when the key is absent.
Get(data, key) == IF key \in DOMAIN data THEN data[key] ELSE Undefined

----------------------------------------------------------------------------
(* Engine payloads *)

Timestamps == {1, 2}
Values == {100, 105}
Points == [timestamp : Timestamps, value : Values]

\* Every engine-reported history of at most MaxHist points: unsorted ones and
\* ones with repeated timestamps included.
Histories == UNION {[1..n -> Points] : n \in 0..MaxHist}

Keys == {"reasoning", "decisions", "portfolio_summary", "portfolio_positions",
         "history", "trade_history"}

EmptyObject == [k \in {} |-> Undefined]

RestOf == [reasoning |-> Str(<<"ok">>),
           decisions |-> Arr(<<"d1">>),
           portfolio_summary |-> Obj(<<"cash">>),
           portfolio_positions |-> Arr(<<"p1">>),
           trade_history |-> Arr(<<"t1">>)]

\* The object with the history h (left out when withHistory is FALSE) and,
\* when withRest, all other recognized keys.
PayloadOf(withHistory, h, withRest) ==
    [k \in (IF withHistory THEN {"history"} ELSE {})
           \cup (IF withRest THEN Keys \ {"history"} ELSE {})
       |-> IF k = "history" THEN Arr(h) ELSE RestOf[k]]

\* What the engine reports in one cycle: every history next to the other
\* keys, and the objects without a history.
Payloads ==
    {PayloadOf(TRUE, h, TRUE) : h \in Histories}
        \cup {PayloadOf(FALSE, <<>>, r) : r \in BOOLEAN}

----------------------------------------------------------------------------
(* Text *)

Tokens == {"{", "}", " ", "#", "m"}

Text(shape, obj) == [shape |-> shape, obj |-> obj]

NoText == Text(<<>>, EmptyObject)

\* The JSON text of object p, as JSON.stringify writes it.
ObjectText(p) ==
    IF DOMAIN p = {} THEN Text(<<"{", "}">>, EmptyObject)
    ELSE Text(<<"{", "m", "}">>, p)

\* String.prototype.indexOf for a one-character pattern, 1-based; 0 stands
\* for JavaScript's -1.
RECURSIVE IndexFrom(_, _, _)
IndexFrom(s, tok, i) ==
    IF i > Len(s) THEN 0
    ELSE IF s[i] = tok THEN i
    ELSE IndexFrom(s, tok, i + 1)

IndexOf(s, tok) == IndexFrom(s, tok, 1)

\* String.prototype.substring(i) with a 1-based i.
Substring(text, i) == Text(SubSeq(text.shape, i, Len(text.shape)), text.obj)

\* The first position at or after i that holds no whitespace.
RECURSIVE SkipWs(_, _)
SkipWs(s, i) ==
    IF i <= Len(s) /\ s[i] = " " THEN SkipWs(s, i + 1) ELSE i

AtEnd(s, i) == SkipWs(s, i) > Len(s)

ParseOk(data) == [ok |-> TRUE, data |-> data]
ParseThrows == [ok |-> FALSE, data |-> EmptyObject]

\* JSON.parse on a text of the token language: the text is JSON exactly when
\* it is  ws* '{' ws* [members ws*] '}' ws* ; anything else throws.
JsonParse(text) ==
    LET s == text.shape
        i0 == SkipWs(s, 1)
        i1 == SkipWs(s, i0 + 1)
        i2 == SkipWs(s, i1 + 1)
    IN  IF i0 > Len(s) \/ s[i0] # "{" THEN ParseThrows
        ELSE IF i1 > Len(s) THEN ParseThrows
        ELSE IF s[i1] = "}" THEN
            IF AtEnd(s, i1 + 1) THEN ParseOk(EmptyObject) ELSE ParseThrows
        ELSE IF s[i1] = "m" THEN
            IF i2 <= Len(s) /\ s[i2] = "}" /\ AtEnd(s, i2 + 1)
            THEN ParseOk(text.obj) ELSE ParseThrows
        ELSE ParseThrows

----------------------------------------------------------------------------
(* app/api/trade/route.tsx *)

\* What one run of the engine process does: it closes with an exit code
\* after writing stdout and stderr, or it cannot be started at all.
CloseOutcome(code, stdout, stderr) ==
    [kind |-> "close", code |-> code, stdout |-> stdout, stderr |-> stderr,
     message |-> <<>>]
SpawnErrorOutcome ==
    [kind |-> "error", code |-> 0, stdout |-> NoText, stderr |-> <<>>,
     message |-> <<"spawn python3 ENOENT">>]
\* The request does not reach the route: fetch itself rejects.
NetworkOutcome ==
    [kind |-> "network", code |-> 0, stdout |-> NoText, stderr |-> <<>>,
     message |-> <<"Failed to fetch">>]

Resolve(text) == [ok |-> TRUE, value |-> text, message |-> <<>>]
Reject(msg) == [ok |-> FALSE, value |-> NoText, message |-> msg]

\* runTradingScript that resolves with stdout whatever the exit code is.
RunTradingScriptIgnoringCode(o) ==
    IF o.kind = "error" THEN Reject(o.message) ELSE Resolve(o.stdout)

\* runTradingScript: the promise settles with stdout on exit code 0 and with
\* an Error otherwise (stderr || `Python script failed with code ${code}`).
RunTradingScript(o) ==
    IF o.kind = "error" THEN Reject(o.message)
    ELSE IF o.code # 0 THEN
        Reject(IF o.stderr # <<>> THEN o.stderr
               ELSE <<"Python script failed with code ", ToString(o.code)>>)
    ELSE Resolve(o.stdout)

NoBraceText == <<"Invalid or incomplete output from the AI trading script.">>

Response(status, output, err) == [status |-> status, output |-> output, error |-> err]

\* A plausible slip: the output is returned uncut, as the route did before
\* the search for '{' was added (route.tsx 112-114).
JsonStringUncut(rawOutput, jsonStart) == rawOutput

\* rawOutput.substring(jsonStart)
JsonString(rawOutput, jsonStart) == Substring(rawOutput, jsonStart)

\* export async function POST()
POST(o) ==
    LET run == RunTradingScript(o)
        rawOutput == run.value
        jsonStart == IndexOf(rawOutput.shape, "{")
    IN  IF ~run.ok THEN Response(500, NoText, run.message)
        ELSE IF jsonStart = 0 THEN Response(500, NoText, NoBraceText)
        ELSE Response(200, JsonString(rawOutput, jsonStart), <<>>)

----------------------------------------------------------------------------
(* app/page.tsx: the Home component *)

ParseFailureText ==
    <<"Failed to parse the data from the AI. The output might be malformed.">>
NoReasoningText == <<"No reasoning provided.">>
FetchFallbackText == <<"Failed to fetch trading decision.">>

\* The component's state right after construction, per variant.
InitialState(v) ==
    [reasoning |-> Str(<<>>),
     decisions |-> Arr(<<>>),
     portfolioSummary |-> JNull,
     portfolioPositions |-> Arr(<<>>),
     history |-> Arr(<<>>),
     tradeHistory |-> Arr(<<>>),
     loading |-> (v = "auto"),
     error |-> JNull]

State ==
    [reasoning |-> reasoning,
     decisions |-> decisions,
     portfolioSummary |-> portfolioSummary,
     portfolioPositions |-> portfolioPositions,
     history |-> history,
     tradeHistory |-> tradeHistory,
     loading |-> loading,
     error |-> error]

\* filteredHistory with > in place of >=.
FilteredHistoryStrict(hist, range, clock) ==
    IF range = "72h"
    THEN Arr(SelectSeq(hist.v, LAMBDA point : point.timestamp > clock - WindowHours))
    ELSE hist

\* filteredHistory: under '72h' the points at or after Date.now() - 72 h, in
\* the order of the history; the history itself under 'all'.
FilteredHistory(hist, range, clock) ==
    IF range = "72h"
    THEN Arr(SelectSeq(hist.v, LAMBDA point : point.timestamp >= clock - WindowHours))
    ELSE hist

\* segment.borderColor with the two comparisons exchanged.
SegmentBorderColorSwapped(y1, y2) ==
    IF y2 < y1 THEN "var(--success)"
    ELSE IF y2 > y1 THEN "var(--danger)"
    ELSE "var(--gray-400)"

\* segment.borderColor of the chart's dataset: p0 and p1 are the two ends of
\* a segment, y the value of the point.
SegmentBorderColor(y1, y2) ==
    IF y2 > y1 THEN "var(--success)"
    ELSE IF y2 < y1 THEN "var(--danger)"
    ELSE "var(--gray-400)"

\* The colours of the segments the chart draws for data: one per pair of
\* adjacent points, in the order of data.
ChartSegments(data) ==
    [k \in 1..(Len(data) - 1) |->
        SegmentBorderColor(data[k].value, data[k + 1].value)]

\* The chart container showing the chart from one point on.
ChartContainerFromOne(data, running) ==
    IF Len(data) > 0 THEN "chart"
    ELSE IF running THEN "Running first analysis cycle..."
    ELSE "Waiting for more data to generate the portfolio chart."

\* What the chart container shows: the chart, or one of two placeholders.
ChartContainer(data, running) ==
    IF Len(data) > 1 THEN "chart"
    ELSE IF running THEN "Running first analysis cycle..."
    ELSE "Waiting for more data to generate the portfolio chart."

\* parseOutput that resets the history and does not set it from the object.
ParseOutputResetting(v, st, output) ==
    [st EXCEPT !.history = Arr(<<>>)]

\* parseOutput: the try branch sets every field from the parsed object, the
\* catch branch reports the failure and clears the fields (the trade log is
\* not among the fields it clears; the manual variant has no trade log).
ParseOutput(v, st, output) ==
    LET parsed == JsonParse(output)
        data == parsed.data
    IN  IF parsed.ok THEN
            [st EXCEPT
                !.reasoning = OrElse(Get(data, "reasoning"), Str(NoReasoningText)),
                !.decisions = OrElse(Get(data, "decisions"), Arr(<<>>)),
                !.portfolioSummary = OrElse(Get(data, "portfolio_summary"), JNull),
                !.portfolioPositions = OrElse(Get(data, "portfolio_positions"), Arr(<<>>)),
                !.history = OrElse(Get(data, "history"), Arr(<<>>)),
                !.tradeHistory = IF v = "auto"
                                 THEN OrElse(Get(data, "trade_history"), Arr(<<>>))
                                 ELSE @]
        ELSE
            [st EXCEPT
                !.error = Str(ParseFailureText),
                !.reasoning = Str(<<>>),
                !.decisions = Arr(<<>>),
                !.portfolioSummary = JNull,
                !.portfolioPositions = Arr(<<>>),
                !.history = Arr(<<>>)]

\* A plausible slip: the catch of handleTrade clears the display the way the
\* catch of parseOutput does.
CatchClearing(st, message) ==
    [st EXCEPT
        !.error = Str(message),
        !.reasoning = Str(<<>>),
        !.decisions = Arr(<<>>),
        !.portfolioSummary = JNull,
        !.portfolioPositions = Arr(<<>>),
        !.history = Arr(<<>>)]

\* handleTrade's catch: setError(err.message)
Catch(st, message) == [st EXCEPT !.error = Str(message)]

\* handleTrade up to the await: setLoading(true); setError(null)
HandleTradeBegin(st) == [st EXCEPT !.loading = TRUE, !.error = JNull]

ResponseOk(r) == r.status \in 200..299

\* handleTrade from the await on, for the outcome o of the request.
HandleTradeSettleNoFinally(v, st, o) ==
    LET r == POST(o)
    IN  IF o.kind = "network" THEN Catch(st, o.message)
        ELSE IF ~ResponseOk(r) THEN
            Catch(st, OrElse(Str(r.error), Str(FetchFallbackText)).v)
        ELSE ParseOutput(v, st, r.output)

HandleTradeSettle(v, st, o) ==
    LET r == POST(o)
        after ==
            IF o.kind = "network" THEN Catch(st, o.message)
            ELSE IF ~ResponseOk(r) THEN
                Catch(st, OrElse(Str(r.error), Str(FetchFallbackText)).v)
            ELSE ParseOutput(v, st, r.output)
    IN  [after EXCEPT !.loading = FALSE]

\* What the settled call saw: how it ended, the history the parsed object
\* held, the failure text the adapter gave.
Seen(o) ==
    LET r == POST(o)
        parsed == JsonParse(r.output)
    IN  IF o.kind = "network" THEN
            [outcome |-> "adapterFailure", delta |-> Undefined, failure |-> o.message]
        ELSE IF ~ResponseOk(r) THEN
            [outcome |-> "adapterFailure", delta |-> Undefined, failure |-> r.error]
        ELSE IF ~parsed.ok THEN
            [outcome |-> "parseFailure", delta |-> Undefined, failure |-> <<>>]
        ELSE
            [outcome |-> "ok", delta |-> Get(parsed.data, "history"), failure |-> <<>>]

\* Of a call that settles after the page is gone, only how it ended.
SeenUnmounted(o) ==
    [outcome |-> Seen(o).outcome, delta |-> Undefined, failure |-> <<>>]

\* Which call it was and what its engine process did: the event that ended
\* it, the exit code, the captured error stream.
RunOf(c, o) == [cycle |-> c, kind |-> o.kind, code |-> o.code, stderr |-> o.stderr]
NoRun == [cycle |-> 0, kind |-> "none", code |-> 0, stderr |-> <<>>]

NothingSeen == [outcome |-> "none", delta |-> Undefined, failure |-> <<>>]

----------------------------------------------------------------------------
(* What the engine may print in one cycle *)

\* Texts that hold no member list: empty, blank, brace-free, cut short, and
\* an empty object behind a diagnostic character.
SampleShapes ==
    {<<>>, <<" ">>, <<"#">>, <<"{">>, <<"{", "#", "}">>, <<"#", "{", "}">>}

CycleTexts ==
    {ObjectText(p) : p \in Payloads}
        \cup {Text(s, EmptyObject) : s \in SampleShapes}

CycleOutcomes ==
    {CloseOutcome(0, t, <<>>) : t \in CycleTexts}
        \cup {CloseOutcome(1, NoText, e) : e \in {<<>>, <<"Traceback">>}}
        \cup {CloseOutcome(0, ObjectText(PayloadOf(FALSE, <<>>, TRUE)), <<"warning">>)}
        \cup {SpawnErrorOutcome, NetworkOutcome}

\* The texts of the extraction specification: every token sequence of at most
\* MaxRawLen tokens in which a member list comes after some '{'.
HasMembers(s) == \E i \in 1..Len(s) : s[i] = "m"
WellFormed(s) ==
    \A i \in 1..Len(s) : s[i] = "m" => \E j \in 1..(i - 1) : s[j] = "{"

ExtractShapes ==
    {s \in UNION {[1..n -> Tokens] : n \in 0..MaxRawLen} : WellFormed(s)}

ExtractPayloads ==
    {PayloadOf(TRUE, <<[timestamp |-> 1, value |-> 100]>>, TRUE),
     PayloadOf(TRUE, <<[timestamp |-> 2, value |-> 105]>>, FALSE)}

\* The objects with any subset of the recognized keys, the reasoning being
\* 'ok' or the empty string when it is present.
KeyedPayloads ==
    {[k \in ks |-> IF k = "reasoning" THEN r
                   ELSE IF k = "history"
                        THEN Arr(<<[timestamp |-> 1, value |-> 100]>>)
                   ELSE RestOf[k]]
        : ks \in SUBSET Keys, r \in {Str(<<"ok">>), Str(<<>>)}}

\* Texts that hold a <thinking>...</thinking> block, written as the one token
\* "t": alone, behind a diagnostic character, before an empty object, and
\* behind a '{' that opens no object.
ThinkingShapes ==
    {<<"t">>, <<"#", "t">>, <<"t", "{", "}">>, <<"{", "t">>}

ExtractTexts ==
    {Text(s, EmptyObject) : s \in {x \in ExtractShapes : ~HasMembers(x)}}
        \cup {Text(s, p) : s \in {x \in ExtractShapes : HasMembers(x)},
                           p \in ExtractPayloads}
        \cup {ObjectText(p) : p \in KeyedPayloads}
        \cup {Text(s, EmptyObject) : s \in ThinkingShapes}

----------------------------------------------------------------------------
(* The state machine *)

Init ==
    /\ variant \in {"auto", "manual"}
    /\ reasoning = InitialState(variant).reasoning
    /\ decisions = InitialState(variant).decisions
    /\ portfolioSummary = InitialState(variant).portfolioSummary
    /\ portfolioPositions = InitialState(variant).portfolioPositions
    /\ history = InitialState(variant).history
    /\ tradeHistory = InitialState(variant).tradeHistory
    /\ loading = InitialState(variant).loading
    /\ error = InitialState(variant).error
    /\ timer = FALSE
    /\ started = 0
    /\ inflight = {}
    /\ lastCycle = NothingSeen
    /\ raw = NoText
    /\ timeRange = "all"
    /\ filteredHistory = FilteredHistory(InitialState(variant).history, "all", WindowHours)
    /\ now = WindowHours
    /\ unmounted = FALSE
    /\ summary = Str(<<>>)
    /\ portfolio = JNull
    /\ lastRun = NoRun

\* A call of handleTrade runs to its await: the request is on its way.
Begin ==
    /\ started < MaxCycles
    /\ loading' = HandleTradeBegin(State).loading
    /\ error' = HandleTradeBegin(State).error
    /\ started' = started + 1
    /\ inflight' = inflight \cup {started + 1}
    /\ UNCHANGED <<variant, summary, portfolio, lastRun, reasoning, decisions, portfolioSummary,
                   portfolioPositions, history, tradeHistory, lastCycle, raw,
                   timeRange, filteredHistory, now, unmounted>>

\* The effect that installs the interval without calling handleTrade first.
MountWithoutFirstCall ==
    /\ variant = "auto"
    /\ ~timer
    /\ ~unmounted
    /\ timer' = TRUE
    /\ UNCHANGED <<variant, summary, portfolio, lastRun, reasoning, decisions, portfolioSummary,
                   portfolioPositions, history, tradeHistory, loading, error,
                   started, inflight, lastCycle, raw, timeRange,
                   filteredHistory, now, unmounted>>

\* useEffect: handleTrade() at once, then setInterval(handleTrade, 4 min).
Mount ==
    /\ variant = "auto"
    /\ ~timer
    /\ ~unmounted
    /\ timer' = TRUE
    /\ Begin

\* The interval fires: handleTrade(), whatever the state.
Tick ==
    /\ timer
    /\ UNCHANGED timer
    /\ Begin

\* <button onClick={handleTrade} disabled={loading}>
Click ==
    /\ variant = "manual"
    /\ ~loading
    /\ UNCHANGED timer
    /\ Begin

\* The request of call c comes back with outcome o and handleTrade runs to
\* its end; React applies the state updates of the continuation as one batch
\* and drops them when the page is unmounted; setHistory gives filteredHistory
\* a new dependency, so the window is computed again.
Settle(c, o) ==
    /\ c \in inflight
    /\ LET st == IF unmounted THEN State
                 ELSE HandleTradeSettle(variant, State, o)
       IN  /\ filteredHistory' =
                 IF unmounted \/ Seen(o).outcome = "adapterFailure"
                 THEN filteredHistory
                 ELSE FilteredHistory(st.history, timeRange, now)
           /\ reasoning' = st.reasoning
           /\ decisions' = st.decisions
           /\ portfolioSummary' = st.portfolioSummary
           /\ portfolioPositions' = st.portfolioPositions
           /\ history' = st.history
           /\ tradeHistory' = st.tradeHistory
           /\ loading' = st.loading
           /\ error' = st.error
    /\ inflight' = inflight \ {c}
    /\ lastCycle' = IF unmounted THEN SeenUnmounted(o) ELSE Seen(o)
    /\ lastRun' = IF unmounted THEN NoRun ELSE RunOf(c, o)
    /\ UNCHANGED <<variant, timer, started, raw, timeRange, now, unmounted,
                   summary, portfolio>>

Complete == \E c \in inflight : \E o \in CycleOutcomes : Settle(c, o)

\* The effect cleanup that leaves the interval installed.
UnmountKeepingInterval ==
    /\ timer
    /\ ~unmounted
    /\ unmounted' = TRUE
    /\ UNCHANGED <<variant, summary, portfolio, lastRun, reasoning, decisions, portfolioSummary,
                   portfolioPositions, history, tradeHistory, loading, error,
                   timer, started, inflight, lastCycle, raw, timeRange,
                   filteredHistory, now>>

\* The page unmounts and the effect cleanup runs: clearInterval(intervalId).
\* Requests on their way are not touched.
Unmount ==
    /\ timer
    /\ ~unmounted
    /\ unmounted' = TRUE
    /\ timer' = FALSE
    /\ UNCHANGED <<variant, summary, portfolio, lastRun, reasoning, decisions, portfolioSummary,
                   portfolioPositions, history, tradeHistory, loading, error,
                   started, inflight, lastCycle, raw, timeRange,
                   filteredHistory, now>>

Next == Mount \/ Tick \/ Click \/ Complete \/ Unmount

Spec == Init /\ [][Next]_vars

\* The extraction specification: one cycle on an engine output fixed at the
\* start, drawn from ExtractTexts.
InitExtract ==
    /\ variant \in {"auto", "manual"}
    /\ reasoning = InitialState(variant).reasoning
    /\ decisions = InitialState(variant).decisions
    /\ portfolioSummary = InitialState(variant).portfolioSummary
    /\ portfolioPositions = InitialState(variant).portfolioPositions
    /\ history = InitialState(variant).history
    /\ tradeHistory = InitialState(variant).tradeHistory
    /\ loading = InitialState(variant).loading
    /\ error = InitialState(variant).error
    /\ timer = FALSE
    /\ started = 0
    /\ inflight = {}
    /\ lastCycle = NothingSeen
    /\ raw \in ExtractTexts
    /\ timeRange = "all"
    /\ filteredHistory = FilteredHistory(InitialState(variant).history, "all", WindowHours)
    /\ now = WindowHours
    /\ unmounted = FALSE
    /\ summary = Str(<<>>)
    /\ portfolio = JNull
    /\ lastRun = NoRun

ExtractMount == started = 0 /\ Mount
ExtractClick == started = 0 /\ Click
ExtractSettle == \E c \in inflight : Settle(c, CloseOutcome(0, raw, <<>>))

NextExtract == ExtractMount \/ ExtractClick \/ ExtractSettle

SpecExtract == InitExtract /\ [][NextExtract]_vars

\* The window specification: the timer-driven page with an engine that
\* reports the same history in every cycle, the time-range buttons and the
\* clock.
WindowSeries == UNION {[1..n -> Points] : n \in 0..MaxSeries}
WindowTexts == {ObjectText(PayloadOf(TRUE, h, FALSE)) : h \in WindowSeries}

InitWindow ==
    /\ variant = "auto"
    /\ reasoning = InitialState(variant).reasoning
    /\ decisions = InitialState(variant).decisions
    /\ portfolioSummary = InitialState(variant).portfolioSummary
    /\ portfolioPositions = InitialState(variant).portfolioPositions
    /\ history = InitialState(variant).history
    /\ tradeHistory = InitialState(variant).tradeHistory
    /\ loading = InitialState(variant).loading
    /\ error = InitialState(variant).error
    /\ timer = FALSE
    /\ started = 0
    /\ inflight = {}
    /\ lastCycle = NothingSeen
    /\ raw \in WindowTexts
    /\ timeRange = "all"
    /\ filteredHistory = FilteredHistory(InitialState(variant).history, "all", WindowHours)
    /\ now = WindowHours
    /\ unmounted = FALSE
    /\ summary = Str(<<>>)
    /\ portfolio = JNull
    /\ lastRun = NoRun

\* The click that also cuts the history down to the window.
SetTimeRangeTruncating(range) ==
    /\ variant = "auto"
    /\ timeRange' = range
    /\ history' = FilteredHistory(history, range, now)
    /\ filteredHistory' = FilteredHistory(history, range, now)
    /\ UNCHANGED <<variant, summary, portfolio, lastRun, reasoning, decisions, portfolioSummary,
                   portfolioPositions, tradeHistory, loading, error, timer,
                   started, inflight, lastCycle, raw, now, unmounted>>

\* onClick={() => setTimeRange(range)}: a new range renders the page again
\* and the memo computes the window; the range already set changes nothing.
SetTimeRange(range) ==
    /\ variant = "auto"
    /\ timeRange' = range
    /\ filteredHistory' = IF range # timeRange
                          THEN FilteredHistory(history, range, now)
                          ELSE filteredHistory
    /\ UNCHANGED <<variant, summary, portfolio, lastRun, reasoning, decisions, portfolioSummary,
                   portfolioPositions, history, tradeHistory, loading, error,
                   timer, started, inflight, lastCycle, raw, now, unmounted>>

\* The two buttons of the mounted page.
Select72h == ~unmounted /\ SetTimeRange("72h")
SelectAll == ~unmounted /\ SetTimeRange("all")

\* An hour passes.
Clock ==
    /\ now < WindowHours + MaxClock
    /\ now' = now + 1
    /\ UNCHANGED <<variant, summary, portfolio, lastRun, reasoning, decisions, portfolioSummary,
                   portfolioPositions, history, tradeHistory, loading, error,
                   timer, started, inflight, lastCycle, raw, timeRange,
                   filteredHistory, unmounted>>

WindowSettle == \E c \in inflight : Settle(c, CloseOutcome(0, raw, <<>>))

NextWindow == Mount \/ Tick \/ WindowSettle \/ Select72h \/ SelectAll \/ Clock

SpecWindow == InitWindow /\ [][NextWindow]_vars

----------------------------------------------------------------------------
(* The tagged-block pages: src/unnamed/part_001 and part_002 *)

\* The engine's text output, line by line. The two tags stand on lines of
\* their own; every other line is one of the kinds the parser tells apart.
OpenTag == "<thinking>"
CloseTag == "</thinking>"
BlankLine == " "
PlainLine == "#"
DecisionsHeader == "--- FINAL DECISIONS ---"
TableRow == "| AAPL | BUY | High | 10 |"
SavedLine == "Portfolio state has been saved"
PortfolioHeader == "5. Final Portfolio Status..."
KeyLine == "Cash: 1000"
HistoryHeader == "--- PORTFOLIO HISTORY ---"
ArrayLine == "[{\"timestamp\":1,\"value\":100}]"
BrokenLine == "[{\"timestamp\":1,"
ObjectLine == "{\"timestamp\":1,\"value\":100}"

TaggedLines ==
    {OpenTag, CloseTag, BlankLine, PlainLine, DecisionsHeader, TableRow,
     SavedLine, PortfolioHeader, KeyLine, HistoryHeader, ArrayLine,
     BrokenLine, ObjectLine}

\* line.trim() === ''
IsBlankLine(line) == line = BlankLine
\* line.includes('---')
IncludesDashes(line) == line \in {DecisionsHeader, HistoryHeader}
\* line.includes('Portfolio state has been saved'), also at the start
IncludesSaved(line) == line = SavedLine
\* line.split(':') gives a key and at least one more part
HasKeyAndValue(line) == line \in {KeyLine, ArrayLine, BrokenLine, ObjectLine}
\* line.startsWith('|') with four non-empty cells
IsFourCellRow(line) == line = TableRow

NoReasoningBlockText == <<"No reasoning block found.">>
TaggedFallbackText == <<"Failed to fetch trading decision from the server.">>

\* String.prototype.trim() of a text of lines: the blank lines at both ends go.
RECURSIVE TrimStart(_)
TrimStart(s) ==
    IF s # <<>> /\ IsBlankLine(Head(s)) THEN TrimStart(Tail(s)) ELSE s
RECURSIVE TrimEnd(_)
TrimEnd(s) ==
    IF s # <<>> /\ IsBlankLine(s[Len(s)])
    THEN TrimEnd(SubSeq(s, 1, Len(s) - 1)) ELSE s
Trim(s) == TrimEnd(TrimStart(s))

\* output.match(/<thinking>([\s\S]*?)<\/thinking>/): the leftmost opening
\* tag that has a closing tag behind it, up to the first such closing tag.
ReasoningMatch(s) ==
    LET open == IndexOf(s, OpenTag)
        close == IF open = 0 THEN 0 ELSE IndexFrom(s, CloseTag, open + 1)
    IN  [found |-> close # 0, open |-> open, close |-> close,
         inner |-> IF close # 0 THEN SubSeq(s, open + 1, close - 1) ELSE <<>>]

\* reasoningMatch ? output.substring(output.indexOf('</thinking>') + 11).trim()
\*                : output
DecisionText(s) ==
    IF ReasoningMatch(s).found
    THEN Trim(SubSeq(s, IndexOf(s, CloseTag) + 1, Len(s)))
    ELSE s

\* decisionText.split('\n').filter(line => line.trim() !== '')
NonBlankLines(s) == SelectSeq(s, LAMBDA line : ~IsBlankLine(line))

\* The loop over the lines from index i on, up to the first line that stops
\* it (one of the lines in stopping): the lines it visits.
LoopLines(lines, i, stopping) ==
    LET stops == {k \in i..Len(lines) : lines[k] \in stopping}
        end == IF stops = {} THEN Len(lines) + 1
               ELSE CHOOSE k \in stops : \A j \in stops : k <= j
    IN  SubSeq(lines, i, end - 1)

\* portfolioDetails[key.trim()] = ...: one entry per key, in the order of
\* the first assignment.
RECURSIVE PortfolioDetails(_, _)
PortfolioDetails(visited, details) ==
    IF visited = <<>> THEN details
    ELSE LET line == Head(visited)
             known == \E k \in 1..Len(details) : details[k] = line
         IN  PortfolioDetails(Tail(visited),
                 IF HasKeyAndValue(line) /\ ~known
                 THEN Append(details, line) ELSE details)

\* JSON.parse of one line: the two array and object lines parse, any other
\* line throws.
ParseLine(line) ==
    IF line = ArrayLine
    THEN [ok |-> TRUE, data |-> Arr(<<[timestamp |-> 1, value |-> 100]>>)]
    ELSE IF line = ObjectLine
    THEN [ok |-> TRUE, data |-> Obj(<<"timestamp", "value">>)]
    ELSE [ok |-> FALSE, data |-> Undefined]

\* part_001 with a catch that clears what was parsed before the history.
ParseHistoryGivingUp(st, lines) ==
    LET historyHeaderIndex == IndexOf(lines, HistoryHeader)
        parsed == ParseLine(lines[historyHeaderIndex + 1])
    IN  IF historyHeaderIndex = 0 \/ historyHeaderIndex + 1 > Len(lines)
        THEN st
        ELSE IF parsed.ok /\ parsed.data.t = "array"
        THEN [st EXCEPT !.history = parsed.data]
        ELSE [st EXCEPT !.portfolio = JNull, !.reasoning = Str(<<>>)]

\* part_001, "Parse Portfolio History": the line behind the header is parsed
\* and kept when it is an array; a throw of JSON.parse is only logged.
ParseHistory(st, lines) ==
    LET historyHeaderIndex == IndexOf(lines, HistoryHeader)
        parsed == ParseLine(lines[historyHeaderIndex + 1])
    IN  IF historyHeaderIndex = 0 \/ historyHeaderIndex + 1 > Len(lines)
        THEN st
        ELSE IF parsed.ok /\ parsed.data.t = "array"
        THEN [st EXCEPT !.history = parsed.data]
        ELSE st

\* "Parse Final Portfolio Status": the lines behind the header, up to the
\* line that stops the loop of the variant.
ParsePortfolio(v, st, lines) ==
    LET portfolioHeaderIndex == IndexOf(lines, PortfolioHeader)
        visited ==
            IF v = "part_001"
            THEN LoopLines(lines, portfolioHeaderIndex + 1,
                           {line \in TaggedLines : IncludesDashes(line)})
            ELSE LoopLines(lines, portfolioHeaderIndex + 1,
                           {line \in TaggedLines : IncludesSaved(line)})
    IN  IF portfolioHeaderIndex = 0 THEN st
        ELSE [st EXCEPT !.portfolio = Obj(PortfolioDetails(visited, <<>>))]

\* "Parse Summary and Decisions": an empty branch in part_001; in part_002
\* the lines before the header are the summary and the rows from the third
\* line behind it on are the decisions.
ParseDecisions(v, st, lines) ==
    LET decisionsHeaderIndex == IndexOf(lines, DecisionsHeader)
        visited == LoopLines(lines, decisionsHeaderIndex + 3,
                             {line \in TaggedLines : IncludesSaved(line)})
    IN  IF decisionsHeaderIndex = 0 \/ v = "part_001" THEN st
        ELSE [st EXCEPT
                !.summary = Str(SubSeq(lines, 1, decisionsHeaderIndex - 1)),
                !.decisions = Arr(SelectSeq(visited, IsFourCellRow))]

\* Everything parseOutput does with the lines of decisionText.
ScanLines(v, st, lines) ==
    LET afterDecisions == ParseDecisions(v, st, lines)
        afterPortfolio == ParsePortfolio(v, afterDecisions, lines)
    IN  IF v = "part_001" THEN ParseHistory(afterPortfolio, lines)
        ELSE afterPortfolio

\* What setReasoning receives.
ReasoningOf(s) ==
    IF ReasoningMatch(s).found THEN Str(Trim(ReasoningMatch(s).inner))
    ELSE Str(NoReasoningBlockText)

\* parseOutput of the tagged-block pages; part_001 resets every field first.
ParseOutputTagged(v, st, output) ==
    LET reset ==
            IF v = "part_001"
            THEN [st EXCEPT !.reasoning = Str(<<>>), !.summary = Str(<<>>),
                            !.decisions = Arr(<<>>), !.portfolio = JNull,
                            !.history = Arr(<<>>)]
            ELSE st
        withReasoning == [reset EXCEPT !.reasoning = ReasoningOf(output.shape)]
    IN  ScanLines(v, withReasoning, NonBlankLines(DecisionText(output.shape)))

\* export async function POST() of the earlier route: the whole stdout goes
\* back as output.
POSTv1(o) ==
    LET run == RunTradingScript(o)
    IN  IF ~run.ok THEN Response(500, NoText, run.message)
        ELSE Response(200, run.value, <<>>)

TaggedInitialState ==
    [reasoning |-> Str(<<>>),
     summary |-> Str(<<>>),
     decisions |-> Arr(<<>>),
     portfolio |-> JNull,
     history |-> Arr(<<>>),
     loading |-> FALSE,
     error |-> JNull]

TaggedState ==
    [reasoning |-> reasoning,
     summary |-> summary,
     decisions |-> decisions,
     portfolio |-> portfolio,
     history |-> history,
     loading |-> loading,
     error |-> error]

\* What the engine may print for the tagged-block pages: every text of at
\* most MaxTaggedLen lines over the tags and the portfolio lines, and the
\* texts made of an opening, a reasoning block and the three sections.
FreeLines == {OpenTag, CloseTag, PlainLine, PortfolioHeader, KeyLine}
FreeShapes == UNION {[1..n -> FreeLines] : n \in 0..MaxTaggedLen}
Openings == {<<>>, <<PortfolioHeader, KeyLine>>, <<CloseTag, PortfolioHeader>>}
Blocks ==
    {<<>>,
     <<OpenTag, BlankLine, PlainLine, BlankLine, CloseTag, BlankLine>>,
     <<OpenTag, PortfolioHeader, KeyLine, CloseTag>>}
DecisionSections ==
    {<<>>,
     <<PlainLine, DecisionsHeader, TableRow, TableRow, TableRow, TableRow,
       SavedLine>>}
PortfolioSections == {<<>>, <<PortfolioHeader, KeyLine>>}
HistorySections ==
    {<<>>,
     <<HistoryHeader, ArrayLine>>,
     <<HistoryHeader, BrokenLine>>,
     <<HistoryHeader, ObjectLine>>,
     <<HistoryHeader, BlankLine, ArrayLine>>}
SectionShapes ==
    {a \o b \o d \o p \o h :
        a \in Openings, b \in Blocks, d \in DecisionSections,
        p \in PortfolioSections, h \in HistorySections}
TaggedTexts == {Text(s, EmptyObject) : s \in FreeShapes \cup SectionShapes}

\* parseOutput reads no state: it is a list of calls of state setters, and a
\* field whose setter it does not call keeps its value. The calls it makes
\* for a text, the last one per field, computed once per text.
NotSet == [t |-> "not set", v |-> <<>>]
NoSetterCalled ==
    [reasoning |-> NotSet, summary |-> NotSet, decisions |-> NotSet,
     portfolio |-> NotSet, history |-> NotSet, loading |-> NotSet,
     error |-> NotSet]
SetterCalls ==
    [v \in {"part_001", "part_002"} |->
        [text \in TaggedTexts |-> ParseOutputTagged(v, NoSetterCalled, text)]]
ApplySetterCalls(st, calls) ==
    [field \in DOMAIN st |->
        IF calls[field] = NotSet THEN st[field] ELSE calls[field]]

\* handleTrade of the tagged-block pages from the await on.
HandleTradeTagged(v, st, o) ==
    LET r == POSTv1(o)
        after ==
            IF o.kind = "network" THEN Catch(st, o.message)
            ELSE IF ~ResponseOk(r) THEN
                Catch(st, OrElse(Str(r.error), Str(TaggedFallbackText)).v)
            ELSE ApplySetterCalls(st, SetterCalls[v][r.output])
    IN  [after EXCEPT !.loading = FALSE]

SeenTagged(o) ==
    LET r == POSTv1(o)
    IN  IF o.kind = "network" THEN
            [outcome |-> "adapterFailure", delta |-> Undefined, failure |-> o.message]
        ELSE IF ~ResponseOk(r) THEN
            [outcome |-> "adapterFailure", delta |-> Undefined, failure |-> r.error]
        ELSE
            [outcome |-> "ok", delta |-> Undefined, failure |-> <<>>]

TaggedOutcomes ==
    {CloseOutcome(0, t, <<>>) : t \in TaggedTexts}
        \cup {CloseOutcome(1, NoText, <<"Traceback">>), SpawnErrorOutcome}

InitTagged ==
    /\ variant \in {"part_001", "part_002"}
    /\ reasoning = TaggedInitialState.reasoning
    /\ summary = TaggedInitialState.summary
    /\ decisions = TaggedInitialState.decisions
    /\ portfolio = TaggedInitialState.portfolio
    /\ history = TaggedInitialState.history
    /\ loading = TaggedInitialState.loading
    /\ error = TaggedInitialState.error
    /\ portfolioSummary = JNull
    /\ portfolioPositions = Arr(<<>>)
    /\ tradeHistory = Arr(<<>>)
    /\ timer = FALSE
    /\ started = 0
    /\ inflight = {}
    /\ lastCycle = NothingSeen
    /\ lastRun = NoRun
    /\ raw = NoText
    /\ timeRange = "all"
    /\ filteredHistory = <<>>
    /\ now = WindowHours
    /\ unmounted = FALSE

\* <button onClick={handleTrade} disabled={loading}>
TaggedClick ==
    /\ variant \in {"part_001", "part_002"}
    /\ ~loading
    /\ UNCHANGED timer
    /\ Begin

\* The request of call c comes back with outcome o; raw keeps the stdout of
\* the engine process of this call.
TaggedSettle(c, o) ==
    /\ c \in inflight
    /\ LET st == HandleTradeTagged(variant, TaggedState, o)
       IN  /\ reasoning' = st.reasoning
           /\ summary' = st.summary
           /\ decisions' = st.decisions
           /\ portfolio' = st.portfolio
           /\ history' = st.history
           /\ loading' = st.loading
           /\ error' = st.error
    /\ inflight' = inflight \ {c}
    /\ lastCycle' = SeenTagged(o)
    /\ lastRun' = RunOf(c, o)
    /\ raw' = o.stdout
    /\ UNCHANGED <<variant, timer, started, timeRange, now, unmounted,
                   portfolioSummary, portfolioPositions, tradeHistory,
                   filteredHistory>>

TaggedComplete == \E c \in inflight : \E o \in TaggedOutcomes : TaggedSettle(c, o)

NextTagged == TaggedClick \/ TaggedComplete

SpecTagged == InitTagged /\ [][NextTagged]_vars

----------------------------------------------------------------------------
(* Vocabulary of the properties *)

\* The current snapshot on display, the Series being the history.
Snapshot ==
    <<reasoning, decisions, portfolioSummary, portfolioPositions, tradeHistory>>

TimestampsOf(series) == {series[i].timestamp : i \in 1..Len(series)}
PointsOf(series) == {series[i] : i \in 1..Len(series)}

\* This step is the end of a cycle of the mounted page that ended the given
\* way.
SettledStep(kind) ==
    /\ ~unmounted
    /\ inflight' # inflight
    /\ inflight' \subseteq inflight
    /\ lastCycle'.outcome = kind

\* The history the parsed object of the settled cycle reported.
DeltaOf(seen) == IF seen.delta.t = "array" THEN seen.delta.v ELSE <<>>

\* The value the last point of delta with timestamp ts holds.
RECURSIVE LatestValue(_, _, _)
LatestValue(delta, ts, i) ==
    IF delta[i].timestamp = ts THEN delta[i].value
    ELSE LatestValue(delta, ts, i - 1)

\* Insert-or-replace by timestamp: the points of series and delta in
\* ascending order of timestamp, the value of delta winning.
RECURSIVE MergeFrom(_, _, _)
MergeFrom(series, delta, todo) ==
    IF todo = {} THEN <<>>
    ELSE LET ts == CHOOSE x \in todo : \A y \in todo : x <= y
             value == IF ts \in TimestampsOf(delta)
                      THEN LatestValue(delta, ts, Len(delta))
                      ELSE LatestValue(series, ts, Len(series))
         IN  <<[timestamp |-> ts, value |-> value]>>
                 \o MergeFrom(series, delta, todo \ {ts})

Merge(series, delta) ==
    MergeFrom(series, delta, TimestampsOf(series) \cup TimestampsOf(delta))

\* Strictly ascending by timestamp.
SortedUnique(series) ==
    \A i \in 1..(Len(series) - 1) :
        series[i].timestamp < series[i + 1].timestamp

IsBlank(text) == \A i \in 1..Len(text.shape) : text.shape[i] = " "

\* The structured-JSON strategy applies: there is a '{' and the text from the
\* first one on is JSON.
RecognizedJson(text) ==
    /\ IndexOf(text.shape, "{") # 0
    /\ JsonParse(Substring(text, IndexOf(text.shape, "{"))).ok

\* The one cycle of the extraction specification has ended.
ExtractDone == started = 1 /\ inflight = {}

\* What extraction left on display, and what it leaves for the text alone.
Extracted == <<Snapshot, history, error>>
ExtractedFrom(text) ==
    LET st == HandleTradeSettle(variant,
                                HandleTradeBegin(InitialState(variant)),
                                CloseOutcome(0, text, <<>>))
    IN  <<<<st.reasoning, st.decisions, st.portfolioSummary,
            st.portfolioPositions, st.tradeHistory>>, st.history, st.error>>

\* The text holds a tagged reasoning block.
HasThinkingBlock(text) == \E i \in 1..Len(text.shape) : text.shape[i] = "t"

\* The whole output is one JSON object.
JsonObjectOutput(text) == JsonParse(text).ok

\* The state field that shows the value of a recognized key.
FieldOf(key) ==
    CASE key = "reasoning" -> reasoning
      [] key = "decisions" -> decisions
      [] key = "portfolio_summary" -> portfolioSummary
      [] key = "portfolio_positions" -> portfolioPositions
      [] key = "history" -> history
      [] key = "trade_history" -> tradeHistory

\* The empty defaults of the specification, and the ones of parseOutput.
EmptyDefault(key) ==
    CASE key = "reasoning" -> Str(<<>>)
      [] key = "portfolio_summary" -> JNull
      [] OTHER -> Arr(<<>>)
ShownDefault(key) ==
    IF key = "reasoning" THEN Str(<<"No reasoning provided.">>)
    ELSE EmptyDefault(key)

\* The page keeps a value for the key: the button variant has no trade log.
Kept(key) == key # "trade_history" \/ variant = "auto"

\* The strategy the specification's priority order selects for a text.
FirstApplicable(text) ==
    IF RecognizedJson(text) THEN "structured-JSON"
    ELSE IF HasThinkingBlock(text) THEN "tagged-block"
    ELSE "opaque-text"

\* The positions of series whose point is at or after the cutoff.
Recent(series, cutoff) ==
    {j \in 1..Len(series) : series[j].timestamp >= cutoff}

\* w holds exactly the points of series at or after the cutoff, in the order
\* they have in series.
IsWindowOf(w, series, cutoff) ==
    /\ Len(w) = Cardinality(Recent(series, cutoff))
    /\ \A j \in Recent(series, cutoff) :
          w[Cardinality({k \in Recent(series, cutoff) : k <= j})] = series[j]

\* The trend a segment colour stands for.
TrendOf(colour) ==
    CASE colour = "var(--success)" -> "Up"
      [] colour = "var(--danger)" -> "Down"
      [] colour = "var(--gray-400)" -> "Flat"

\* The trends of the segments the chart draws for the window on display.
Trends ==
    [k \in DOMAIN ChartSegments(filteredHistory.v) |->
        TrendOf(ChartSegments(filteredHistory.v)[k])]

\* The snapshot is absent as a whole: no field holds a value.
SnapshotAbsent ==
    /\ reasoning = Str(<<>>)
    /\ decisions = Arr(<<>>)
    /\ portfolioSummary = JNull
    /\ portfolioPositions = Arr(<<>>)
    /\ tradeHistory = Arr(<<>>)

\* Every field of the snapshot holds what one parse of the object p gives.
PopulatedFrom(p) ==
    /\ reasoning = OrElse(Get(p, "reasoning"), Str(<<"No reasoning provided.">>))
    /\ decisions = OrElse(Get(p, "decisions"), Arr(<<>>))
    /\ portfolioSummary = OrElse(Get(p, "portfolio_summary"), JNull)
    /\ portfolioPositions = OrElse(Get(p, "portfolio_positions"), Arr(<<>>))
    /\ Kept("trade_history") =>
          tradeHistory = OrElse(Get(p, "trade_history"), Arr(<<>>))

\* This step is the end of a cycle of the mounted page whose request reached
\* the route, so that the engine process was run.
AdapterReturned ==
    /\ ~unmounted
    /\ inflight' # inflight
    /\ inflight' \subseteq inflight
    /\ lastRun'.kind \in {"close", "error"}

\* The engine process of the cycle that has just ended exited with code 0.
ExitedWell == lastRun'.kind = "close" /\ lastRun'.code = 0

\* The text names an exit code.
NamesExitCode(text) ==
    Len(text) = 2 /\ text[1] = "Python script failed with code "

Prefix(text, k) == SubSeq(text.shape, 1, k)
Body(text, k) == Substring(text, k + 1)

\* The tagged-block pages: the last call ended well, so the fields show what
\* parseOutput made of raw.
TaggedParsed ==
    variant \in {"part_001", "part_002"} /\ lastCycle.outcome = "ok"

\* The first pair of an opening tag and a closing tag behind it.
HasTagPair(s) ==
    \E i, j \in 1..Len(s) : i < j /\ s[i] = OpenTag /\ s[j] = CloseTag
PairOpen(s) ==
    CHOOSE i \in 1..Len(s) :
        /\ s[i] = OpenTag
        /\ \E j \in (i + 1)..Len(s) : s[j] = CloseTag
        /\ \A k \in 1..(i - 1) :
              ~(s[k] = OpenTag /\ \E j \in (k + 1)..Len(s) : s[j] = CloseTag)
PairClose(s) ==
    CHOOSE j \in (PairOpen(s) + 1)..Len(s) :
        /\ s[j] = CloseTag
        /\ \A k \in (PairOpen(s) + 1)..(j - 1) : s[k] # CloseTag
BlockInterior(s) == SubSeq(s, PairOpen(s) + 1, PairClose(s) - 1)
AfterBlock(s) == SubSeq(s, PairClose(s) + 1, Len(s))

\* A text without the blank lines at its ends.
Trimmed(s) ==
    LET inked == {i \in 1..Len(s) : s[i] # BlankLine}
    IN  IF inked = {} THEN <<>>
        ELSE SubSeq(s, CHOOSE i \in inked : \A k \in inked : i <= k,
                       CHOOSE i \in inked : \A k \in inked : i >= k)

\* The lines the parser of part_001 and part_002 goes through.
ScannedLines == NonBlankLines(DecisionText(raw.shape))

\* The line behind the history header is there and is no JSON array.
MalformedHistoryLine(lines) ==
    \E h \in 1..(Len(lines) - 1) :
        /\ lines[h] = HistoryHeader
        /\ \A k \in 1..(h - 1) : lines[k] # HistoryHeader
        /\ lines[h + 1] # ArrayLine

\* The portfolio-status mapping of part_001 for the lines: absent without
\* the header, else one entry per 'key: value' line between the header and
\* the next line with '---'.
IsStatusMapping(value, lines) ==
    IF \A i \in 1..Len(lines) : lines[i] # PortfolioHeader THEN value = JNull
    ELSE LET p == CHOOSE i \in 1..Len(lines) :
                      /\ lines[i] = PortfolioHeader
                      /\ \A k \in 1..(i - 1) : lines[k] # PortfolioHeader
             section == {i \in (p + 1)..Len(lines) :
                            \A k \in (p + 1)..i : ~IncludesDashes(lines[k])}
         IN  /\ value.t = "object"
             /\ {value.v[k] : k \in 1..Len(value.v)}
                    = {lines[i] : i \in {k \in section : HasKeyAndValue(lines[k])}}

\* The reasoning the tagged-block format defines for a text.
IsReasoningOf(value, s) ==
    IF HasTagPair(s) THEN value = Str(Trimmed(BlockInterior(s)))
    ELSE value = Str(NoReasoningBlockText)

----------------------------------------------------------------------------
(* Properties *)

\* C1: at most one cycle is in flight, whatever ticks and triggers arrive.
C1_AtMostOneInFlight == Cardinality(inflight) <= 1

\* C2: the Series only grows: a timestamp in the Series before a step is in
\* the Series after it.
C2_SeriesGrowsMonotonically ==
    [][TimestampsOf(history.v) \subseteq TimestampsOf(history'.v)]_vars

\* C3: a cycle that ends in a parse failure records the failure, leaves the
\* Series and the snapshot as they were, and ends with the scheduler idle.
C3_ParseFailureLeavesState ==
    [][SettledStep("parseFailure") =>
          /\ error' # JNull
          /\ Snapshot' = Snapshot
          /\ history' = history
          /\ loading' = FALSE]_vars

\* C4: a cycle that ends in an adapter failure records the failure text as
\* the last error, leaves the Series and the snapshot as they were, and ends
\* with the scheduler idle.
C4_AdapterFailureLeavesState ==
    [][SettledStep("adapterFailure") =>
          /\ lastCycle'.failure # <<>>
          /\ error' = Str(lastCycle'.failure)
          /\ Snapshot' = Snapshot
          /\ history' = history
          /\ loading' = FALSE]_vars

\* C4 witness: an adapter failure has just been reported over a populated
\* snapshot and a non-empty Series.
C4_Witness ==
    /\ lastCycle.outcome = "adapterFailure"
    /\ error = Str(lastCycle.failure)
    /\ ~loading
    /\ reasoning = Str(<<"ok">>)
    /\ history # Arr(<<>>)

\* C5: a successful cycle merges the reported history into the Series by
\* insert-or-replace on timestamp (stated for a Series and a non-empty
\* reported history that are each in ascending order without repeated
\* timestamps, so that only the merge is in question).
C5_AppendMergesByTimestamp ==
    [][(/\ SettledStep("ok")
        /\ SortedUnique(history.v)
        /\ DeltaOf(lastCycle') # <<>>
        /\ SortedUnique(DeltaOf(lastCycle')))
          => history' = Arr(Merge(history.v, DeltaOf(lastCycle')))]_vars

\* C6: the Series is sorted strictly ascending by timestamp, so no two of its
\* points share a timestamp.
C6_SeriesSortedUnique == SortedUnique(history.v)

\* C7: appending a non-empty batch whose every point is already in the
\* Series, with the same value, leaves the Series as it was (stated for a
\* Series and a batch that are each in ascending order without repeats).
C7_AppendIdempotent ==
    [][(/\ SettledStep("ok")
        /\ SortedUnique(history.v)
        /\ DeltaOf(lastCycle') # <<>>
        /\ SortedUnique(DeltaOf(lastCycle'))
        /\ PointsOf(DeltaOf(lastCycle')) \subseteq PointsOf(history.v))
          => history' = history]_vars

\* C8: extraction reports a hard failure exactly when the output is empty or
\* whitespace-only.
C8_OnlyEmptyOutputFails ==
    ExtractDone => (error # JNull <=> IsBlank(raw))

\* C9: non-empty output that is not recognized as structured data is no
\* error: the reasoning is the full input and every other field is empty.
C9_OpaqueTextFallback ==
    (ExtractDone /\ ~IsBlank(raw) /\ FirstApplicable(raw) = "opaque-text") =>
        /\ error = JNull
        /\ reasoning = Str(raw.shape)
        /\ decisions = Arr(<<>>)
        /\ portfolioSummary = JNull
        /\ portfolioPositions = Arr(<<>>)
        /\ history = Arr(<<>>)
        /\ tradeHistory = Arr(<<>>)

\* C10 as stated: whatever the prefix before a JSON object holds, extraction
\* gives what it gives for the object alone.
C10_AnyPrefixIgnored ==
    ExtractDone =>
        \A k \in 0..Len(raw.shape) :
            JsonParse(Body(raw, k)).ok => Extracted = ExtractedFrom(Body(raw, k))

\* C10 amended: a prefix that holds no '{' before a JSON object has no
\* influence: extraction gives what it gives for the object alone.
C10_BraceFreePrefixIgnored ==
    ExtractDone =>
        \A k \in 0..Len(raw.shape) :
            (IndexOf(Prefix(raw, k), "{") = 0 /\ JsonParse(Body(raw, k)).ok)
                => Extracted = ExtractedFrom(Body(raw, k))

\* C10 witness: a diagnostic character before an object with members has
\* been extracted, and the object's history is on display.
C10_Witness ==
    /\ ExtractDone
    /\ Len(raw.shape) > 1
    /\ raw.shape[1] = "#"
    /\ HasMembers(raw.shape)
    /\ JsonParse(Body(raw, 1)).ok
    /\ error = JNull
    /\ history = Get(raw.obj, "history")
    /\ history # Arr(<<>>)

C12_StrategiesInPriorityOrder ==
    ExtractDone =>
        /\ FirstApplicable(raw) = "structured-JSON" =>
               lastCycle.outcome = "ok" /\ error = JNull
        /\ FirstApplicable(raw) = "tagged-block" =>
               error = JNull /\ reasoning = Str(<<"t">>)

\* C13: whenever the window is computed, under '72h' it holds exactly the
\* points of the Series whose timestamp is at or after now - 72 h of that
\* moment (the point exactly at the boundary included, older ones left out,
\* the order kept), and under 'all' it is the whole Series.
C13_WindowExact ==
    [][(filteredHistory' # filteredHistory \/ timeRange' # timeRange
            \/ history' # history) =>
          IF timeRange' = "72h"
          THEN IsWindowOf(filteredHistory'.v, history'.v, now' - WindowHours)
          ELSE filteredHistory' = history']_vars

\* C13 witness: the 72-hour window on display holds the point exactly at the
\* boundary and leaves out an older point of the Series.
C13_Witness ==
    /\ timeRange = "72h"
    /\ Len(history.v) = 3
    /\ \E i, j \in 1..Len(history.v) :
          /\ history.v[i].timestamp < now - WindowHours
          /\ history.v[j].timestamp = now - WindowHours
          /\ history.v[j] \in PointsOf(filteredHistory.v)
          /\ history.v[i] \notin PointsOf(filteredHistory.v)
    /\ IsWindowOf(filteredHistory.v, history.v, now - WindowHours)

\* C14: switching the time range leaves the Series as it was, and the view
\* 'all' shows every point of the Series, whatever was shown before.
C14_WindowLeavesSeries ==
    [][(timeRange' # timeRange) =>
          /\ history' = history
          /\ (timeRange' = "all" => filteredHistory' = history)]_vars

\* C14 witness: the 72-hour window on display is shorter than the Series,
\* which still is the whole history the engine reported.
C14_Witness ==
    /\ timeRange = "72h"
    /\ history = Get(raw.obj, "history")
    /\ Len(history.v) = 3
    /\ Len(filteredHistory.v) < Len(history.v)

\* C15: the k-th segment of the chart is Up when the later point of the k-th
\* adjacent pair is strictly greater, Down when strictly smaller, Flat when
\* the two are equal; there is one segment per adjacent pair.
C15_SegmentTrends ==
    /\ DOMAIN Trends = 1..(Len(filteredHistory.v) - 1)
    /\ \A k \in DOMAIN Trends :
          LET earlier == filteredHistory.v[k].value
              later == filteredHistory.v[k + 1].value
          IN  /\ later > earlier => Trends[k] = "Up"
              /\ later < earlier => Trends[k] = "Down"
              /\ later = earlier => Trends[k] = "Flat"

\* C15 witness: the window on display is 100, 105, 105 and its segments are
\* Up, Flat.
C15_Witness ==
    /\ Len(filteredHistory.v) = 3
    /\ filteredHistory.v[1].value = 100
    /\ filteredHistory.v[2].value = 105
    /\ filteredHistory.v[3].value = 105
    /\ Trends = <<"Up", "Flat">>

\* C16: a window of fewer than two points has no segment and is no error:
\* the container shows a placeholder in place of the chart and no error is
\* set, with a cycle running or not.
C16_ShortWindowNoChart ==
    Len(filteredHistory.v) < 2 =>
        /\ ChartContainer(filteredHistory.v, loading) # "chart"
        /\ ChartSegments(filteredHistory.v) = <<>>
        /\ error = JNull

\* C16 witness: a cycle is running while the 72-hour window of a Series of
\* three points holds one point; the placeholder is shown.
C16_Witness ==
    /\ loading
    /\ timeRange = "72h"
    /\ Len(history.v) = 3
    /\ Len(filteredHistory.v) = 1
    /\ ChartContainer(filteredHistory.v, loading) = "Running first analysis cycle..."
    /\ error = JNull

\* C17: on the timer-driven page the first cycle starts in the very step
\* that installs the timer, so before any tick: the step that starts the
\* first cycle and the step that installs the timer are the same step.
C17_FirstCycleAtStart ==
    [][variant = "auto" =>
          ((~timer /\ timer') <=> (started = 0 /\ started' = 1))]_vars

\* C17 witness: the timer has just been installed and the first cycle is in
\* flight, no second call having been made.
C17_Witness ==
    /\ variant = "auto"
    /\ timer
    /\ started = 1
    /\ inflight = {1}
    /\ loading

\* C18 as stated: after the stop no cycle starts, and a cycle in flight at
\* the stop applies its result when it ends: the loading flag is lowered and
\* a failure is recorded as the last error.
C18_StoppedCycleApplies ==
    [][unmounted =>
          /\ started' = started
          /\ inflight' # inflight =>
                /\ loading' = FALSE
                /\ lastCycle'.outcome # "ok" => error' # JNull]_vars

\* C18 amended: after the stop no cycle starts; a cycle in flight at the stop
\* is not aborted, it can run to its end; and its result is dropped as a
\* whole: no part of it changes what the page held at the stop.
C18_StoppedCycleDropped ==
    /\ []((unmounted /\ inflight # {}) => ENABLED Complete)
    /\ [][unmounted =>
            /\ started' = started
            /\ inflight' \subseteq inflight
            /\ State' = State
            /\ filteredHistory' = filteredHistory]_vars

\* C18 witness: the page was unmounted with its first cycle in flight and
\* the cycle has ended since: the loading flag it raised is still up.
C18_Witness ==
    /\ unmounted
    /\ ~timer
    /\ started = 1
    /\ inflight = {}
    /\ lastCycle.outcome # "none"
    /\ loading

\* C19: a failed cycle is never fatal: the step that ends a cycle in an
\* adapter failure or a parse failure lowers the loading flag and leaves the
\* timer installed, and an installed timer can always fire and start a cycle
\* (up to the bound on the number of cycles).
C19_FailuresNeverFatal ==
    /\ []((timer /\ started < MaxCycles) => ENABLED Tick)
    /\ [][(SettledStep("adapterFailure") \/ SettledStep("parseFailure")) =>
            /\ loading' = FALSE
            /\ timer' = timer]_vars

\* C19 witness: the first cycle has failed, the scheduler is idle with the
\* error on display, the timer is installed and its tick can start a cycle.
C19_Witness ==
    /\ lastCycle.outcome \in {"adapterFailure", "parseFailure"}
    /\ error # JNull
    /\ ~loading
    /\ inflight = {}
    /\ timer
    /\ ENABLED Tick

\* C20: the Series changes in one step: a step that changes it is the end of
\* a cycle, and the end of a successful cycle leaves the complete history the
\* cycle reported, never an emptied or partial one.
C20_SeriesUpdateAtomic ==
    [][/\ history' # history =>
            (SettledStep("ok") \/ SettledStep("parseFailure"))
       /\ SettledStep("ok") =>
            history' = OrElse(lastCycle'.delta, Arr(<<>>))]_vars

\* C20 witness: a cycle has just ended well and the Series is the complete
\* two-point history it reported, next to the snapshot of the same cycle.
C20_Witness ==
    /\ ~unmounted
    /\ lastCycle.outcome = "ok"
    /\ Len(history.v) = 2
    /\ history = lastCycle.delta
    /\ reasoning = Str(<<"ok">>)
    /\ ~loading

\* C21: in every state the snapshot is absent as a whole or every field of
\* it comes from one parse: there is no mixture of fields of one cycle's
\* output with fields that the failure of another cycle cleared.
C21_SnapshotWholeOrAbsent ==
    SnapshotAbsent \/ \E p \in Payloads \cup {EmptyObject} : PopulatedFrom(p)

\* C23 as stated: the adapter succeeds exactly when the process exits with
\* code 0; when the process cannot be started or exits with another code,
\* the last error is the captured error stream when that is non-empty and
\* otherwise a text that names the failing exit code.
C23_FailureTextStderrOrCode ==
    [][AdapterReturned =>
          IF ExitedWell
          THEN lastCycle'.outcome = "adapterFailure" =>
                   lastCycle'.failure = NoBraceText
          ELSE /\ lastCycle'.outcome = "adapterFailure"
               /\ error'.t = "string"
               /\ IF lastRun'.stderr # <<>> THEN error'.v = lastRun'.stderr
                  ELSE NamesExitCode(error'.v)]_vars

\* C23 amended: the adapter succeeds exactly when the process exits with
\* code 0; when it exits with another code the last error is the captured
\* error stream when that is non-empty and otherwise the text that names the
\* exit code; when the process cannot be started the last error is the
\* message of the spawn error.
C23_FailureTextStderrCodeOrSpawn ==
    [][AdapterReturned =>
          IF ExitedWell
          THEN lastCycle'.outcome = "adapterFailure" =>
                   lastCycle'.failure = NoBraceText
          ELSE /\ lastCycle'.outcome = "adapterFailure"
               /\ error'.t = "string"
               /\ IF lastRun'.kind = "error"
                  THEN error'.v = <<"spawn python3 ENOENT">>
                  ELSE IF lastRun'.stderr # <<>>
                       THEN error'.v = lastRun'.stderr
                  ELSE error'.v = <<"Python script failed with code ",
                                    ToString(lastRun'.code)>>]_vars

\* C23 witness: the engine exited with code 1 after writing a traceback to
\* its error stream, and the traceback is the last error on display.
C23_Witness ==
    /\ ~unmounted
    /\ lastRun.kind = "close"
    /\ lastRun.code = 1
    /\ lastRun.stderr = <<"Traceback">>
    /\ lastCycle.outcome = "adapterFailure"
    /\ error = Str(<<"Traceback">>)
    /\ ~loading

\* C24: starting a cycle changes only the loading flag and the last error,
\* and while a cycle is in flight the Series, the snapshot and the window on
\* display keep their values: a step that starts a cycle, or that leaves a
\* cycle in flight that was in flight before it, changes none of them.
C24_InFlightCycleKeepsDisplay ==
    [][(started' # started \/ inflight \cap inflight' # {}) =>
          /\ history' = history
          /\ Snapshot' = Snapshot
          /\ filteredHistory' = filteredHistory]_vars

\* C26: on the mounted page, once a cycle has started, the loading flag is
\* up in exactly the states in which some started cycle has not ended.
C26_LoadingIffInFlight ==
    (~unmounted /\ started > 0) => (loading <=> inflight # {})

\* C27: the result of an earlier-started cycle never overwrites the result
\* of a later-started one: when the cycle that settled last ended well and a
\* cycle started before it ends well now, the Series and the snapshot stay
\* as they are.
C27_LaterStartedWins ==
    [][\A c \in inflight :
          (/\ SettledStep("ok")
           /\ inflight' = inflight \ {c}
           /\ lastCycle.outcome = "ok"
           /\ lastRun.cycle > c)
            => (history' = history /\ Snapshot' = Snapshot)]_vars

\* C28: the last error is cleared when a cycle starts, and it is absent
\* right after a cycle ends well.
C28_ErrorOfLastCompletedCycle ==
    [][/\ started' # started => error' = JNull
       /\ SettledStep("ok") => error' = JNull]_vars

\* C22: in the tagged-block format a malformed history line (unparseable, or
\* parseable but no array) leaves the history empty, keeps the reasoning and
\* the portfolio-status mapping of the same text, and sets no error.
C22_MalformedHistoryKeepsRest ==
    (/\ TaggedParsed
     /\ variant = "part_001"
     /\ MalformedHistoryLine(ScannedLines))
        => /\ history = Arr(<<>>)
           /\ IsReasoningOf(reasoning, raw.shape)
           /\ IsStatusMapping(portfolio, ScannedLines)
           /\ error = JNull

C22_Witness ==
    /\ variant = "part_001"
    /\ lastCycle.outcome = "ok"
    /\ raw.shape = <<OpenTag, BlankLine, PlainLine, BlankLine, CloseTag,
                     BlankLine, PortfolioHeader, KeyLine, HistoryHeader,
                     BrokenLine>>
    /\ history = Arr(<<>>)
    /\ reasoning = Str(<<PlainLine>>)
    /\ portfolio = Obj(<<KeyLine>>)
    /\ error = JNull
    /\ ~loading

\* C25: when the text holds an opening tag with a closing tag behind it, the
\* reasoning is the inside of the first such pair and the decisions, the
\* portfolio status and the history come from the text behind that pair's
\* closing tag alone: the fields are what the scan of those lines gives.
C25_ScanCoversTextAfterBlock ==
    [][(/\ variant \in {"part_001", "part_002"}
        /\ lastCycle'.outcome = "ok"
        /\ inflight' # inflight
        /\ HasTagPair(raw'.shape))
          => LET before == ParseOutputTagged(variant, TaggedState, NoText)
                 expected ==
                     ScanLines(variant, before,
                               NonBlankLines(Trimmed(AfterBlock(raw'.shape))))
             IN  /\ reasoning' = Str(Trimmed(BlockInterior(raw'.shape)))
                 /\ summary' = expected.summary
                 /\ decisions' = expected.decisions
                 /\ portfolio' = expected.portfolio
                 /\ history' = expected.history]_vars

====
